---- MODULE Spec2Model ----
(***************************************************************************)
(* Client-side orchestration layer of the digital forensics suite:         *)
(*   - the Keycloak session lifecycle (frontend/src/lib/keycloak.ts and    *)
(*     frontend/src/lib/AuthContext.tsx),                                  *)
(*   - the authenticated transport (api.ts: fetchApi and the api object),  *)
(*   - the search component (components/search/SearchContent.tsx),         *)
(*   - the queue monitor page (pages/QueueMonitor.tsx).                    *)
(*                                                                         *)
(* Six specifications share the variables: Spec (session), SpecLogout       *)
(* (the session's operations with the navigation of logout completing),    *)
(* SpecTransport (calls in flight under a signed-in session), SpecSearch   *)
(* (SearchContent), SpecRepeat (SearchContent run repeatedly against an    *)
(* unchanging backend) and SpecPoll (QueueMonitor).  Each leaves the       *)
(* variables of the other                                                  *)
(* components at their construction values.                                *)
(*                                                                         *)
(* The JavaScript event loop is single threaded: every action below is one *)
(* run-to-completion task (an event handler, a timer callback or the       *)
(* continuation of an await together with the microtasks it triggers).     *)
(***************************************************************************)
EXTENDS Integers, Sequences, FiniteSets, TLC

\* ---------------------------------------------------------------- bounds
\* Number of AuthProvider effect runs that call initKeycloak().
MaxCallers == 2
\* Number of access tokens the identity provider hands out in one page life.
MaxTokens == 2
\* Number of keycloak.updateToken() calls outstanding at the same time.
MaxPending == 2
\* Number of realm roles one access token carries.
MaxRoles == 1

\* Longest text term typed into the search box.
MaxLen == 1
\* Longest list a backend search endpoint returns.
MaxList == 2
\* Number of handleSearch invocations awaiting their backend calls at once.
MaxInflight == 2

\* Number of transport calls awaiting their response at the same time.
MaxCalls == 1
\* Number of files picked for one upload (CaseDetail.tsx:75).
MaxFiles == 2

\* Number of queue-status requests issued in one page life.
MaxPolls == 3

Callers == 1..MaxCallers

VARIABLES
    \* keycloak.ts module state
    initialized,      \* let initialized (keycloak.ts:11)
    initPromise,      \* let initPromise (keycloak.ts:12): "null" | "pending" | "resolved"
    promiseValue,     \* the value initPromise resolved to
    \* the keycloak-js client object (keycloak.ts:9)
    kcAuthenticated,  \* keycloak.authenticated: "undefined" | "true" | "false"
    kcToken,          \* keycloak.token: 0 = undefined, n > 0 = the n-th token issued
    tokenGen,         \* number of tokens issued so far
    \* environment and history of the session
    initCalls,        \* how many times keycloak.init was invoked
    timers,           \* number of live setInterval timers created by setupTokenRefresh
    pendingRefresh,   \* outstanding keycloak.updateToken calls, by origin
    refreshFailed,    \* some updateToken call has rejected
    failedTokens,     \* tokens that were current when a refresh of them failed
    logoutCallbacks,  \* how many times keycloak.onAuthLogout has been invoked
    successCallbacks, \* how many times keycloak.onAuthSuccess has been invoked
    logoutCalled,     \* logout() (keycloak.ts:60) has been called
    realmRoles,       \* keycloak.realmAccess.roles, {} while there is no token
    callState,        \* per initKeycloak() call: "idle" | "pending" | "done"
    callEarly,        \* the call was issued before keycloak.init settled
    callResult,       \* the value the call's promise resolved to
    \* AuthProvider React state (AuthContext.tsx:34-36)
    isLoading, authenticated, user,
    \* transport calls (api.ts)
    transit,          \* the calls awaiting their response: method and header sent
    uploadsLeft,      \* files the running handleUpload loop has still to send
    lastOutcome,      \* how the call that got its response in the last step settled
    \* SearchContent React state (SearchContent.tsx:9-17)
    form,             \* searchType, textQuery, mediaId, lat, lon, radius, file
    results, searching,
    inflight,         \* handleSearch invocations suspended at their await, oldest first
    lastResp,         \* what the backend answered to the invocation that resumed last
    backend,          \* what an unchanging backend holds; nothing when it may change
    runs,             \* the last two executions run one after the other
    \* QueueMonitor's query (QueueMonitor.tsx:8-12)
    mounted,          \* the QueueMonitor view is mounted
    queryData,        \* data: the snapshot held, part by part; NoData = undefined
    fetchCurrent,     \* the request the query is waiting for, 0 = not fetching
    outstanding,      \* queue-status requests on the network
    issuedPolls,      \* number of queue-status requests issued so far
    arrivals,         \* the responses received, in arrival order
    \* history shared by the specifications
    lastOp,           \* name of the last operation that ran
    lastCalls         \* the network requests built by the last operation

sessionVars == <<initialized, initPromise, promiseValue, kcAuthenticated, kcToken,
                 tokenGen, initCalls, timers, pendingRefresh, refreshFailed,
                 failedTokens, logoutCallbacks, successCallbacks, logoutCalled, callState, callEarly,
                 callResult, isLoading, authenticated, user, realmRoles>>

searchVars == <<form, results, searching, inflight, lastResp, backend, runs>>

pollVars == <<mounted, queryData, fetchCurrent, outstanding, issuedPolls, arrivals>>

flightVars == <<transit, uploadsLeft>>

transportVars == <<flightVars, lastOutcome>>

vars == <<sessionVars, searchVars, pollVars, transportVars, lastOp, lastCalls>>

RemoveAt(seq, i) == SubSeq(seq, 1, i - 1) \o SubSeq(seq, i + 1, Len(seq))

\* ------------------------------------------------------- session: helpers

\* The realm roles this deployment's code asks for (keycloak.ts:76-82).
Roles == {"admin", "forensic-admin", "analyst", "forensic-analyst"}

\* The role sets a token can carry.
RoleSets == {S \in SUBSET Roles : Cardinality(S) <= MaxRoles}

\* hasRole (keycloak.ts:72-74): keycloak.hasRealmRole, false without a token
HasRole(role) == role \in realmRoles

\* isAdmin (keycloak.ts:76-78)
IsAdmin == HasRole("admin") \/ HasRole("forensic-admin")

IsAnalyst_WithoutAdmin == HasRole("analyst") \/ HasRole("forensic-analyst")

\* isAnalyst (keycloak.ts:80-82)
IsAnalyst == HasRole("analyst") \/ HasRole("forensic-analyst") \/ IsAdmin

\* keycloak.authenticated ?? false  (keycloak.ts:16, keycloak.ts:69)
IsAuthenticated == kcAuthenticated = "true"

\* getUserInfo (keycloak.ts:84-94): null unless keycloak.authenticated
GetUserInfo(kcAuth) == IF kcAuth = "true" THEN "user" ELSE "null"

GetAuthHeader_Cached == [present |-> TRUE, bearer |-> 1]

\* getAuthHeader (keycloak.ts:96-99): {} when there is no token, else Bearer <token>
GetAuthHeader == IF kcToken = 0 THEN [present |-> FALSE, bearer |-> 0]
                 ELSE [present |-> TRUE, bearer |-> kcToken]

\* A request as fetchApi builds it (api.ts fetchApi): endpoint, query and headers.
Request(endpoint, q, nums) ==
    [endpoint |-> endpoint, q |-> q, nums |-> nums, auth |-> GetAuthHeader]

SessionInit ==
    /\ initialized = FALSE
    /\ initPromise = "null"
    /\ promiseValue = FALSE
    /\ kcAuthenticated = "undefined"
    /\ kcToken = 0
    /\ tokenGen = 0
    /\ initCalls = 0
    /\ timers = 0
    /\ pendingRefresh = [timer |-> 0, expired |-> 0]
    /\ refreshFailed = FALSE
    /\ failedTokens = {}
    /\ logoutCallbacks = 0
    /\ successCallbacks = 0
    /\ logoutCalled = FALSE
    /\ callState = [c \in Callers |-> "idle"]
    /\ callEarly = [c \in Callers |-> FALSE]
    /\ callResult = [c \in Callers |-> FALSE]
    /\ isLoading = TRUE
    /\ authenticated = FALSE
    /\ user = "null"
    /\ realmRoles = {}

\* No transport call got its response in the last step.
NoOutcome == [via |-> "none", status |-> 0, kind |-> "none", code |-> 0,
              auth |-> [present |-> FALSE, bearer |-> 0]]

TransportInit ==
    /\ transit = <<>>
    /\ uploadsLeft = 0
    /\ lastOutcome = NoOutcome

\* A step that is no part of a transport call.
NoTransport == lastOutcome' = NoOutcome /\ UNCHANGED flightVars

\* ------------------------------------------------------- session: actions

\* The .then handler of AuthProvider's effect (AuthContext.tsx:40-46), run with
\* the value initKeycloak() resolved to; kcAuth is keycloak.authenticated then.
ThenHandler(auth, kcAuth, userBefore) ==
    /\ authenticated' = auth
    /\ user' = IF auth THEN GetUserInfo(kcAuth) ELSE userBefore
    /\ isLoading' = FALSE

\* if (initialized) return keycloak.authenticated ?? false   (keycloak.ts:15-17)
AlreadyInitialized == initialized

SharesPending_NoGuard == FALSE

\* if (initPromise) return initPromise   (keycloak.ts:19-21)
SharesPending == initPromise # "null"

InitKeycloak_AlwaysInits(c) ==
    /\ UNCHANGED <<searchVars, pollVars>>
    /\ NoTransport
    /\ callState[c] = "idle"
    /\ initPromise # "pending"
    /\ lastOp' = "initKeycloak"
    /\ lastCalls' = {}
    /\ callState' = [callState EXCEPT ![c] = "pending"]
    /\ callEarly' = [callEarly EXCEPT ![c] = ~initialized]
    /\ initPromise' = "pending"
    /\ initCalls' = initCalls + 1
    /\ UNCHANGED <<isLoading, authenticated, user, callResult>>
    /\ UNCHANGED <<initialized, promiseValue, kcAuthenticated, kcToken, tokenGen,
                   timers, pendingRefresh, refreshFailed, failedTokens,
                   logoutCallbacks, successCallbacks, logoutCalled, realmRoles>>

\* initKeycloak() called by the c-th run of AuthProvider's effect
\* (keycloak.ts:14-46 up to the await, AuthContext.tsx:38-39).
InitKeycloak(c) ==
    /\ UNCHANGED <<searchVars, pollVars>>
    /\ NoTransport
    /\ callState[c] = "idle"
    /\ lastOp' = "initKeycloak"
    /\ lastCalls' = {}
    /\ IF AlreadyInitialized
       THEN /\ callState' = [callState EXCEPT ![c] = "done"]
            /\ callResult' = [callResult EXCEPT ![c] = IsAuthenticated]
            /\ ThenHandler(IsAuthenticated, kcAuthenticated, user)
            /\ UNCHANGED <<initPromise, initCalls, callEarly>>
       ELSE /\ callState' = [callState EXCEPT ![c] = "pending"]
            /\ callEarly' = [callEarly EXCEPT ![c] = TRUE]
            /\ UNCHANGED <<isLoading, authenticated, user, callResult>>
            /\ IF SharesPending
               THEN UNCHANGED <<initPromise, initCalls>>
               ELSE /\ initPromise' = "pending"
                    /\ initCalls' = initCalls + 1
    /\ UNCHANGED <<initialized, promiseValue, kcAuthenticated, kcToken, tokenGen,
                   timers, pendingRefresh, refreshFailed, failedTokens,
                   logoutCallbacks, successCallbacks, logoutCalled, realmRoles>>

\* setupTokenRefresh (keycloak.ts:48-54): one more interval timer; its handle is
\* not kept.
SetupTokenRefresh(n) == n + 1

InitOutcomes == {"authenticated", "anonymous", "error"}

InitResult_ErrorAsTrue(outcome) == outcome # "anonymous"

StartsRefresh_Always(outcome) == TRUE

\* if (authenticated) setupTokenRefresh()   (keycloak.ts:33-35)
StartsRefresh(outcome) == outcome = "authenticated"

\* What the async body returns: the value keycloak.init resolved to, or false
\* from the catch block (keycloak.ts:25, 37, 38-41).
InitResult(outcome) == outcome = "authenticated"

\* keycloak.init settles and the rest of the async body runs (keycloak.ts:25-42);
\* every call waiting on initPromise resolves in the same microtask drain and
\* AuthProvider's .then handler runs (AuthContext.tsx:40-46).  On success
\* keycloak-js has set authenticated and token and called onAuthSuccess
\* (AuthContext.tsx:51-54) before the promise resolves.
InitSettle(outcome) ==
    /\ UNCHANGED <<searchVars, pollVars>>
    /\ NoTransport
    /\ initPromise = "pending"
    /\ lastOp' = "initSettle"
    /\ lastCalls' = {}
    /\ initPromise' = "resolved"
    /\ initialized' = TRUE
    /\ promiseValue' = InitResult(outcome)
    /\ kcAuthenticated' = CASE outcome = "authenticated" -> "true"
                            [] outcome = "anonymous" -> "false"
                            [] OTHER -> kcAuthenticated
    /\ tokenGen' = IF outcome = "authenticated" THEN tokenGen + 1 ELSE tokenGen
    /\ kcToken' = IF outcome = "authenticated" THEN tokenGen + 1 ELSE kcToken
    /\ timers' = IF StartsRefresh(outcome) THEN SetupTokenRefresh(timers) ELSE timers
    /\ realmRoles' \in IF outcome = "authenticated" THEN RoleSets ELSE {realmRoles}
    /\ callState' = [c \in Callers |->
                        IF callState[c] = "pending" THEN "done" ELSE callState[c]]
    /\ callResult' = [c \in Callers |->
                        IF callState[c] = "pending" THEN promiseValue' ELSE callResult[c]]
    /\ ThenHandler(promiseValue', kcAuthenticated', user)
    /\ successCallbacks' = IF outcome = "authenticated" THEN successCallbacks + 1
                           ELSE successCallbacks
    /\ UNCHANGED <<initCalls, pendingRefresh, refreshFailed, failedTokens,
                   logoutCallbacks, logoutCalled, callEarly>>

Outstanding == pendingRefresh.timer + pendingRefresh.expired

\* The interval callback of setupTokenRefresh (keycloak.ts:49-53) starts
\* keycloak.updateToken(60).
RefreshTick ==
    /\ UNCHANGED <<searchVars, pollVars>>
    /\ NoTransport
    /\ timers > 0
    /\ Outstanding < MaxPending
    /\ pendingRefresh' = [pendingRefresh EXCEPT !.timer = @ + 1]
    /\ lastOp' = "refreshTick"
    /\ lastCalls' = {}
    /\ UNCHANGED <<initialized, initPromise, promiseValue, kcAuthenticated, kcToken,
                   tokenGen, initCalls, timers, refreshFailed, failedTokens,
                   logoutCallbacks, successCallbacks, logoutCalled, callState, callEarly, callResult,
                   isLoading, authenticated, user, realmRoles>>

\* keycloak.onTokenExpired (AuthContext.tsx:61-62) starts keycloak.updateToken(30);
\* keycloak-js fires it when the current token's lifetime ends.
TokenExpired ==
    /\ UNCHANGED <<searchVars, pollVars>>
    /\ NoTransport
    /\ kcToken # 0
    /\ Outstanding < MaxPending
    /\ pendingRefresh' = [pendingRefresh EXCEPT !.expired = @ + 1]
    /\ lastOp' = "tokenExpired"
    /\ lastCalls' = {}
    /\ UNCHANGED <<initialized, initPromise, promiseValue, kcAuthenticated, kcToken,
                   tokenGen, initCalls, timers, refreshFailed, failedTokens,
                   logoutCallbacks, successCallbacks, logoutCalled, callState, callEarly, callResult,
                   isLoading, authenticated, user, realmRoles>>

\* What keycloak.updateToken can do.  With a token: "valid" (still valid for
\* minValidity seconds, resolves without a round trip), "refreshed" (new token),
\* "rejected" (the provider answers with an error: keycloak-js clears the token and
\* calls onAuthLogout before rejecting), "unreachable" (no answer: keycloak-js
\* rejects and leaves the client object as it is).  Without a token it rejects at
\* once ("noToken").
RefreshOutcomes ==
    IF kcToken = 0 THEN {"noToken"}
    ELSE {"valid", "rejected", "unreachable"}
         \cup (IF tokenGen < MaxTokens THEN {"refreshed"} ELSE {})

Rejects(outcome) == outcome \in {"rejected", "unreachable", "noToken"}

\* The .catch handler of the interval's updateToken (keycloak.ts:50-52): it only
\* logs a warning, the React state stays as it is.
TimerCatch(st) == st

ExpiredCatch_KeepsUser(st) == [authenticated |-> FALSE, user |-> st.user]

\* The .catch handler of onTokenExpired's updateToken (AuthContext.tsx:62-65).
ExpiredCatch(st) == [authenticated |-> FALSE, user |-> "null"]

\* keycloak.onAuthLogout as AuthProvider registers it (AuthContext.tsx:56-59).
OnAuthLogout(st) == [authenticated |-> FALSE, user |-> "null"]

\* An outstanding updateToken call of origin src settles
\* (keycloak.ts:50-52, AuthContext.tsx:62-65).
RefreshSettle(src, outcome) ==
    /\ UNCHANGED <<searchVars, pollVars>>
    /\ NoTransport
    /\ pendingRefresh[src] > 0
    /\ outcome \in RefreshOutcomes
    /\ pendingRefresh' = [pendingRefresh EXCEPT ![src] = @ - 1]
    /\ lastOp' = "refreshSettle"
    /\ lastCalls' = {}
    /\ tokenGen' = IF outcome = "refreshed" THEN tokenGen + 1 ELSE tokenGen
    /\ kcToken' = CASE outcome = "refreshed" -> tokenGen + 1
                    [] outcome = "rejected" -> 0
                    [] OTHER -> kcToken
    /\ kcAuthenticated' = IF outcome = "rejected" THEN "false" ELSE kcAuthenticated
    /\ realmRoles' = IF outcome = "rejected" THEN {} ELSE realmRoles
    /\ logoutCallbacks' = IF outcome = "rejected" THEN logoutCallbacks + 1
                          ELSE logoutCallbacks
    /\ refreshFailed' = (refreshFailed \/ Rejects(outcome))
    /\ failedTokens' = IF Rejects(outcome) /\ kcToken # 0
                       THEN failedTokens \cup {kcToken} ELSE failedTokens
    /\ LET st0 == [authenticated |-> authenticated, user |-> user]
           st1 == IF outcome = "rejected" THEN OnAuthLogout(st0) ELSE st0
           st2 == IF ~Rejects(outcome) THEN st1
                  ELSE IF src = "timer" THEN TimerCatch(st1) ELSE ExpiredCatch(st1)
       IN /\ authenticated' = st2.authenticated
          /\ user' = st2.user
    /\ UNCHANGED <<initialized, initPromise, promiseValue, initCalls, timers,
                   successCallbacks, logoutCalled, callState, callEarly, callResult,
                   isLoading>>

\* The protected application shell is rendered (App.tsx:56-73).
ShellRendered == ~isLoading /\ authenticated

\* What App renders (App.tsx:56-75): the spinner while loading; the redirect
\* screen, calling login(), while not authenticated; else the shell.
AppRender == CASE isLoading -> "initializing"
               [] ~authenticated -> "login"
               [] OTHER -> "shell"

ProtectedRoute_NoAuthCheck == IF isLoading THEN "spinner" ELSE "children"

\* What ProtectedRoute renders around a page (App.tsx:34-50).
ProtectedRoute == CASE isLoading -> "spinner"
                    [] ~authenticated -> "null"
                    [] OTHER -> "children"

\* logout() (keycloak.ts:60-62) from the Sign out button, which the shell renders
\* only for an authenticated user (App.tsx:116-128).  keycloak.logout navigates
\* to the provider; nothing in keycloak.ts clears the interval.
Logout ==
    /\ UNCHANGED <<searchVars, pollVars>>
    /\ NoTransport
    /\ ShellRendered
    /\ logoutCalled' = TRUE
    /\ lastOp' = "logout"
    /\ lastCalls' = {}
    /\ UNCHANGED <<initialized, initPromise, promiseValue, kcAuthenticated, kcToken,
                   tokenGen, initCalls, timers, pendingRefresh, refreshFailed,
                   failedTokens, logoutCallbacks, successCallbacks, callState, callEarly, callResult,
                   isLoading, authenticated, user, realmRoles>>

Endpoints == {"/tasks/queue-status", "/cases"}

\* A page of the shell calls the transport: fetchApi builds one request with the
\* header getAuthHeader() returns at that moment (api.ts fetchApi, lines 5-13).
FetchApi(endpoint) ==
    /\ UNCHANGED <<searchVars, pollVars>>
    /\ NoTransport
    /\ ShellRendered
    /\ lastOp' = "fetchApi"
    /\ lastCalls' = {Request(endpoint, <<>>, <<>>)}
    /\ UNCHANGED sessionVars

\* ------------------------------------------------- transport calls in flight
\* The api object's methods end in one of three request builders: fetchApi
\* (api.ts:5-24) and the two multipart calls searchByImage (api.ts:63-73) and
\* uploadMedia (api.ts:36-46).  Each builds one request, awaits fetch and then
\* returns the body or throws.

Vias == {"fetchApi", "searchByImage", "uploadMedia"}

EndpointOf(via) == CASE via = "fetchApi" -> "/cases"
                     [] via = "searchByImage" -> "/search/similar/upload"
                     [] via = "uploadMedia" -> "/cases/1/media"

\* Response statuses; 0 stands for no response (fetch itself rejects).
Statuses == {0, 200, 401, 403, 500}

\* res.ok
ResOk(status) == status \in 200..299

\* How the call settles on a response of that status: resolved, or the Error it
\* throws, with the status its message carries (0 when it carries none)
\* (api.ts:14-23, 44-45, 71-72).
Classify(via, status) ==
    CASE status = 0 -> [kind |-> "TypeError", code |-> 0]
      [] ResOk(status) -> [kind |-> "resolved", code |-> 0]
      [] via = "searchByImage" -> [kind |-> "Search failed", code |-> 0]
      [] via = "uploadMedia" -> [kind |-> "Upload failed", code |-> status]
      [] status = 401 -> [kind |-> "Unauthorized - please login", code |-> 0]
      [] status = 403 -> [kind |-> "Forbidden - insufficient permissions", code |-> 0]
      [] OTHER -> [kind |-> "API error", code |-> status]

\* The call in flight: the method and the header its request was built with.
Call(via) == [via |-> via, auth |-> GetAuthHeader]

\* A page of the shell calls an api method that goes through fetchApi or
\* searchByImage: the request is built and sent (api.ts:6-13, 64-70).
ApiCall(via) ==
    /\ via \in {"fetchApi", "searchByImage"}
    /\ ShellRendered
    /\ Len(transit) < MaxCalls
    /\ transit' = Append(transit, Call(via))
    /\ lastCalls' = {Request(EndpointOf(via), <<>>, <<>>)}
    /\ lastOp' = "apiCall"
    /\ lastOutcome' = NoOutcome
    /\ UNCHANGED uploadsLeft
    /\ UNCHANGED <<sessionVars, searchVars, pollVars>>

\* handleUpload (CaseDetail.tsx:70-81) on n picked files: the loop sends the
\* first file through api.uploadMedia and awaits it.
HandleUpload(n) ==
    /\ ShellRendered
    /\ uploadsLeft = 0
    /\ \A i \in 1..Len(transit) : transit[i].via # "uploadMedia"
    /\ Len(transit) < MaxCalls
    /\ transit' = Append(transit, Call("uploadMedia"))
    /\ uploadsLeft' = n - 1
    /\ lastCalls' = {Request(EndpointOf("uploadMedia"), <<>>, <<>>)}
    /\ lastOp' = "handleUpload"
    /\ lastOutcome' = NoOutcome
    /\ UNCHANGED <<sessionVars, searchVars, pollVars>>

\* What the caller of the settled call does next.  handleUpload's loop sends
\* the next file when the upload resolved and files are left; a throw ends the
\* loop (CaseDetail.tsx:75-77).  Nothing else follows a settled call.
Continue(i, status) ==
    IF transit[i].via = "uploadMedia" /\ ResOk(status) /\ uploadsLeft > 0
    THEN /\ transit' = [transit EXCEPT ![i] = Call("uploadMedia")]
         /\ uploadsLeft' = uploadsLeft - 1
         /\ lastCalls' = {Request(EndpointOf("uploadMedia"), <<>>, <<>>)}
    ELSE /\ transit' = RemoveAt(transit, i)
         /\ uploadsLeft' = IF transit[i].via = "uploadMedia" THEN 0 ELSE uploadsLeft
         /\ lastCalls' = {}

ApiSettle_LogoutOn401(i, status) ==
    /\ i \in 1..Len(transit)
    /\ lastOp' = "apiSettle"
    /\ lastOutcome' = [via |-> transit[i].via, status |-> status,
                        kind |-> Classify(transit[i].via, status).kind,
                        code |-> Classify(transit[i].via, status).code,
                        auth |-> transit[i].auth]
    /\ Continue(i, status)
    /\ logoutCalled' = (logoutCalled \/ status = 401)
    /\ UNCHANGED <<initialized, initPromise, promiseValue, kcAuthenticated, kcToken,
                   tokenGen, initCalls, timers, pendingRefresh, refreshFailed,
                   failedTokens, logoutCallbacks, successCallbacks, callState, callEarly, callResult,
                   isLoading, authenticated, user, realmRoles>>
    /\ UNCHANGED <<searchVars, pollVars>>

\* The response to the i-th call in flight arrives, or fetch rejects: the call
\* returns or throws (api.ts:14-23, 44-45, 71-72) and its caller goes on.
ApiSettle(i, status) ==
    /\ i \in 1..Len(transit)
    /\ lastOp' = "apiSettle"
    /\ lastOutcome' = [via |-> transit[i].via, status |-> status,
                        kind |-> Classify(transit[i].via, status).kind,
                        code |-> Classify(transit[i].via, status).code,
                        auth |-> transit[i].auth]
    /\ Continue(i, status)
    /\ UNCHANGED <<sessionVars, searchVars, pollVars>>

\* ================================================== SearchContent component
\* The form fields (searchType, textQuery, mediaId, lat, lon, radius, file) are
\* React state that only the user's edits change (SearchContent.tsx:62-205), and
\* an edit has no other effect.  The variable form holds them as the last user
\* event found them: each user event below first lets the user edit the form to
\* any content f and then runs the handler on f.

SearchTypes == {"text", "similar", "signature", "location", "upload"}

\* Characters typed into the text box: a blank and a letter.
Chars == {" ", "a"}
TextTerms == UNION {[1..n -> Chars] : n \in 0..MaxLen}

\* Values of the <input type="number"> fields (SearchContent.tsx:165-207): the
\* browser hands React "" for an empty or malformed entry, else the number typed.
MediaIdInputs == {"", "42"}
LatInputs == {"", "51"}
LonInputs == {"", "7"}
RadiusInputs == {"", "0", "-1", "10"}
Files == {"null", "photo.jpg"}

\* useState initial values (SearchContent.tsx:9-15)
InitialForm == [searchType |-> "text", textQuery |-> <<>>, mediaId |-> "",
                lat |-> "", lon |-> "", radius |-> "10", file |-> "null"]

\* The fields the mode t renders and handleSearch reads in mode t
\* (SearchContent.tsx:23-48, 118-217).
FieldsOf(t) == CASE t = "text" -> {"textQuery"}
                 [] t = "upload" -> {"file"}
                 [] t \in {"similar", "signature"} -> {"mediaId"}
                 [] t = "location" -> {"lat", "lon", "radius"}

\* Form contents: every content of the fields of the current mode; the fields of
\* the other modes, which nothing reads in this mode, stay at their initial values.
Forms ==
    {f \in [searchType : SearchTypes, textQuery : TextTerms, mediaId : MediaIdInputs,
            lat : LatInputs, lon : LonInputs, radius : RadiusInputs, file : Files] :
        \A k \in {"textQuery", "mediaId", "lat", "lon", "radius", "file"} :
            k \notin FieldsOf(f.searchType) => f[k] = InitialForm[k]}

\* Number(s) on the values above: Number("") is 0.
ToNumber(s) == CASE s = "" -> 0
                 [] s = "0" -> 0
                 [] s = "-1" -> -1
                 [] s = "7" -> 7
                 [] s = "10" -> 10
                 [] s = "42" -> 42
                 [] s = "51" -> 51

IsSpace(ch) == ch = " "

RECURSIVE TrimLeft(_)
TrimLeft(s) == IF s = <<>> THEN s
               ELSE IF IsSpace(Head(s)) THEN TrimLeft(Tail(s)) ELSE s

RECURSIVE TrimRight(_)
TrimRight(s) == IF s = <<>> THEN s
                ELSE IF IsSpace(s[Len(s)]) THEN TrimRight(SubSeq(s, 1, Len(s) - 1))
                ELSE s

\* String.prototype.trim
Trim(s) == TrimRight(TrimLeft(s))

Blank_NoTrim(q) == q = <<>>

\* !textQuery.trim()   (SearchContent.tsx:25, SearchContent.tsx:130)
Blank(q) == Trim(q) = <<>>

\* encodeURIComponent on the characters above (api.ts:77-78)
EncodeURIComponent(s) == [i \in 1..Len(s) |-> IF s[i] = " " THEN "%20" ELSE s[i]]

\* The api object's search calls (api.ts:59-78), each one request through fetchApi
\* (searchByImage through fetch with getAuthHeader()).
SearchCases(q) == Request("/search/autocomplete/cases", EncodeURIComponent(q), <<>>)
SearchPersons(q) == Request("/search/autocomplete/persons", EncodeURIComponent(q), <<>>)
SearchSimilar(id) == Request("/search/similar", <<>>, <<id, 10>>)
SearchBySignature(id) == Request("/search/signature", <<"combined", "0.7">>, <<id>>)
SearchByImage(f) == Request("/search/similar/upload", <<f>>, <<>>)
SearchByLocation(la, lo, radiusKm) == Request("/search/location", <<>>, <<la, lo, radiusKm>>)

\* What the backend can return.  Cases and persons are rows with an id and a
\* name (a person may carry the id and name of a case); media candidates carry a
\* distance.  A list holds each row at most once.
Cases == {[id |-> 1, name |-> "Doe"], [id |-> 2, name |-> "Real Data Case"]}
Persons == {[id |-> 1, name |-> "Doe"]}
Media == {[id |-> 1, distance |-> 3], [id |-> 2, distance |-> 9]}
ListsOver(S) ==
    {l \in UNION {[1..n -> S] : n \in 0..MaxList} :
        \A i, j \in 1..Len(l) : i # j => l[i] # l[j]}

\* A settled backend call: the status of the response and, for a 2xx response,
\* its body; the api call rejects on every other status (api.ts:14-22, 71).
Rejected == [ok |-> FALSE, status |-> 500, body |-> <<>>]
Unauthorized == [ok |-> FALSE, status |-> 401, body |-> <<>>]
Answers(S) ==
    {[ok |-> TRUE, status |-> 200, body |-> l] : l \in ListsOver(S)}
        \cup {Rejected, Unauthorized}
CaseAnswers == Answers(Cases)
PersonAnswers == Answers(Persons)
MediaAnswers == Answers(Media)
NoCall == [ok |-> FALSE, status |-> 0, body |-> <<>>]

\* A backend whose answers may change from call to call.
Changing == [cases |-> NoCall, persons |-> NoCall, media |-> NoCall]

\* The backends that do not change: each endpoint answers every call the same
\* way, with the rows it holds or with the same failure.
Backends == [cases : CaseAnswers, persons : PersonAnswers, media : MediaAnswers]

\* SearchContent as it mounts (SearchContent.tsx:9-17).
ComponentInit ==
    /\ form = InitialForm
    /\ results = [set |-> FALSE, items |-> <<>>]
    /\ searching = FALSE
    /\ inflight = <<>>
    /\ lastResp = [kind |-> "none", a |-> NoCall, b |-> NoCall]
    /\ runs = <<>>

SearchInit ==
    /\ ComponentInit
    /\ backend = Changing

ButtonDisabled_OnlyWhileSearching(f) == searching

\* The disabled attribute of the Search button of the current mode
\* (SearchContent.tsx:130, 153, 174, 210).
ButtonDisabled(f) ==
    CASE f.searchType = "text" -> Blank(f.textQuery) \/ searching
      [] f.searchType = "upload" -> f.file = "null" \/ searching
      [] f.searchType \in {"similar", "signature"} -> f.mediaId = "" \/ searching
      [] f.searchType = "location" -> f.lat = "" \/ f.lon = "" \/ searching

\* The break statements that leave the switch before any call
\* (SearchContent.tsx:25 and 45).
Refuses(f) ==
    \/ f.searchType = "text" /\ Blank(f.textQuery)
    \/ f.searchType = "upload" /\ f.file = "null"

\* The backend calls of the switch (SearchContent.tsx:23-48).
CallsOf(f) ==
    CASE f.searchType = "text" -> {SearchCases(f.textQuery), SearchPersons(f.textQuery)}
      [] f.searchType = "similar" -> {SearchSimilar(ToNumber(f.mediaId))}
      [] f.searchType = "signature" -> {SearchBySignature(ToNumber(f.mediaId))}
      [] f.searchType = "location" ->
            {SearchByLocation(ToNumber(f.lat), ToNumber(f.lon), ToNumber(f.radius))}
      [] f.searchType = "upload" -> {SearchByImage(f.file)}

\* handleSearch up to its first await, or to its end when it refuses
\* (SearchContent.tsx:19-55).
HandleSearch(via, f) ==
    /\ lastOp' = via
    /\ form' = f
    /\ lastResp' = [kind |-> "none", a |-> NoCall, b |-> NoCall]
    /\ IF Refuses(f)
       THEN /\ results' = [set |-> TRUE, items |-> <<>>]
            /\ searching' = FALSE
            /\ lastCalls' = {}
            /\ UNCHANGED inflight
       ELSE /\ Len(inflight) < MaxInflight
            /\ searching' = TRUE
            /\ inflight' = Append(inflight, [kind |-> f.searchType])
            /\ lastCalls' = CallsOf(f)
            /\ UNCHANGED results
    /\ UNCHANGED <<sessionVars, pollVars, transportVars>>

\* A click on the Search button of the current mode: a disabled button
\* dispatches no click event (SearchContent.tsx:128-135, 151-158, 172-179, 208-215).
ClickSearch(f) ==
    /\ UNCHANGED <<backend, runs>>
    /\ IF ButtonDisabled(f)
       THEN /\ lastOp' = "clickDisabled"
            /\ form' = f
            /\ lastCalls' = {}
            /\ lastResp' = [kind |-> "none", a |-> NoCall, b |-> NoCall]
            /\ UNCHANGED <<results, searching, inflight>>
            /\ UNCHANGED <<sessionVars, pollVars, transportVars>>
       ELSE HandleSearch("handleSearch:button", f)

\* Enter in the text box, which text mode renders (SearchContent.tsx:118-125).
PressEnter(f) ==
    /\ f.searchType = "text"
    /\ HandleSearch("handleSearch:enter", f)
    /\ UNCHANGED <<backend, runs>>

\* { ...c, resultType: t } over a list (SearchContent.tsx:31-32)
Tag(list, t) ==
    [i \in 1..Len(list) |->
        [id |-> list[i].id, name |-> list[i].name, resultType |-> t]]

Merge_PersonsFirst(cases, persons) == Tag(persons, "person") \o Tag(cases, "case")

\* data = [...cases.map(..), ...persons.map(..)]   (SearchContent.tsx:30-33)
Merge(cases, persons) == Tag(cases, "case") \o Tag(persons, "person")

\* The candidates of a list ordered by increasing distance.
SortByDistance(list) ==
    IF Len(list) = 0 THEN list
    ELSE CHOOSE l \in [1..Len(list) -> {list[i] : i \in 1..Len(list)}] :
            /\ \A i \in 1..Len(list) : \E j \in 1..Len(l) : l[j] = list[i]
            /\ \A i, j \in 1..Len(l) : i < j => l[i].distance <= l[j].distance

DataOf_SortedByDistance(kind, a, b) ==
    IF kind = "text"
    THEN IF a.ok /\ b.ok THEN Merge(a.body, b.body) ELSE <<>>
    ELSE IF a.ok THEN SortByDistance(a.body) ELSE <<>>

DataOf_Accumulating(kind, a, b) ==
    results.items \o
        (IF kind = "text"
         THEN IF a.ok /\ b.ok THEN Merge(a.body, b.body) ELSE <<>>
         ELSE IF a.ok THEN a.body ELSE <<>>)

\* What setResults receives when the awaited calls have settled: Promise.all
\* rejects as soon as one call rejects and the catch block stores []
\* (SearchContent.tsx:26-34, 36-46, 49-53).
DataOf(kind, a, b) ==
    IF kind = "text"
    THEN IF a.ok /\ b.ok THEN Merge(a.body, b.body) ELSE <<>>
    ELSE IF a.ok THEN a.body ELSE <<>>

\* The i-th suspended handleSearch resumes: its calls have settled with a and b
\* (b only for a text search) and it runs to its end (SearchContent.tsx:26-54).
\* The answers make the awaited call throw (api.ts:14-23, 71).
Throws(kind, a, b) == IF kind = "text" THEN ~(a.ok /\ b.ok) ELSE ~a.ok

Resume_NoCatch(i, a, b) ==
    /\ i \in 1..Len(inflight)
    /\ IF inflight[i].kind = "text"
       THEN a \in CaseAnswers /\ b \in PersonAnswers
       ELSE a \in MediaAnswers /\ b = NoCall
    /\ IF Throws(inflight[i].kind, a, b)
       THEN UNCHANGED <<results, searching>>
       ELSE /\ results' = [set |-> TRUE, items |-> DataOf(inflight[i].kind, a, b)]
            /\ searching' = FALSE
    /\ inflight' = RemoveAt(inflight, i)
    /\ lastResp' = [kind |-> inflight[i].kind, a |-> a, b |-> b]
    /\ lastOp' = "searchSettle"
    /\ lastCalls' = {}
    /\ UNCHANGED form
    /\ UNCHANGED <<sessionVars, pollVars, transportVars>>

\* A suspended handleSearch resumes after its await: setResults(data), or the
\* catch block's setResults([]), then setSearching(false) (SearchContent.tsx:26-54).
Resume(i, a, b) ==
    /\ i \in 1..Len(inflight)
    /\ IF inflight[i].kind = "text"
       THEN a \in CaseAnswers /\ b \in PersonAnswers
       ELSE a \in MediaAnswers /\ b = NoCall
    /\ results' = [set |-> TRUE, items |-> DataOf(inflight[i].kind, a, b)]
    /\ searching' = FALSE
    /\ inflight' = RemoveAt(inflight, i)
    /\ lastResp' = [kind |-> inflight[i].kind, a |-> a, b |-> b]
    /\ lastOp' = "searchSettle"
    /\ lastCalls' = {}
    /\ UNCHANGED form
    /\ UNCHANGED <<sessionVars, pollVars, transportVars>>

\* A suspended handleSearch resumes with whatever the backend answers.
SearchSettle(i, a, b) ==
    /\ Resume(i, a, b)
    /\ UNCHANGED <<backend, runs>>

\* ------------------------------------------ executions against one backend
\* handleSearch run repeatedly, each execution started after the one before has
\* finished, against a backend whose state does not change.

\* No execution is running.
Sequential == inflight = <<>> /\ (IF runs = <<>> THEN TRUE ELSE runs[Len(runs)].done)

\* The user runs a search, by the button or by Enter, when none is running.
RepeatSearch(via, f) ==
    /\ Sequential
    /\ IF via = "handleSearch:enter" THEN f.searchType = "text" ELSE ~ButtonDisabled(f)
    /\ HandleSearch(via, f)
    /\ runs' = (IF runs = <<>> THEN runs ELSE <<runs[Len(runs)]>>)
                  \o <<[f |-> f, done |-> Refuses(f), items |-> <<>>]>>
    /\ UNCHANGED backend

\* The running execution resumes with the backend's answers and stores its
\* results (SearchContent.tsx:26-54).
RepeatSettle ==
    /\ runs # <<>>
    /\ ~runs[Len(runs)].done
    /\ IF runs[Len(runs)].f.searchType = "text"
       THEN Resume(1, backend.cases, backend.persons)
       ELSE Resume(1, backend.media, NoCall)
    /\ runs' = [runs EXCEPT ![Len(runs)] =
                   [f |-> runs[Len(runs)].f, done |-> TRUE, items |-> results'.items]]
    /\ UNCHANGED backend

\* ====================================================== QueueMonitor page
\* useQuery({ queryKey: ['queueStatus'], queryFn: api.getQueueStatus,
\* refetchInterval: 3000 }) and refetch() (QueueMonitor.tsx:8-12, 22).  The query
\* object of @tanstack/react-query holds one fetch at a time: a fetch asked for
\* while one is in progress joins it, except that refetch() cancels the fetch in
\* progress when data is already held and starts a new one; the result of a
\* cancelled fetch is dropped when it arrives.  queryFn takes no abort signal, so
\* a cancelled request stays on the network.

\* The QueueStatus request r returned (api.ts:363-380): each of its parts is the
\* one the backend put into that response.
Payload(r) == [summary |-> r, media_status |-> r, active_tasks |-> r]

\* data is undefined until the first result.
NoData == Payload(0)

SetData_Merging(held, payload) == [payload EXCEPT !.active_tasks = held.active_tasks]

\* The query stores the result of queryFn as its data (QueueMonitor.tsx:8-12).
SetData(held, payload) == payload

PollInit ==
    /\ mounted = FALSE
    /\ queryData = NoData
    /\ fetchCurrent = 0
    /\ outstanding = {}
    /\ issuedPolls = 0
    /\ arrivals = <<>>

\* api.getQueueStatus (api.ts:180)
GetQueueStatus == Request("/tasks/queue-status", <<>>, <<>>)

\* The query starts a fetch: one request through queryFn (QueueMonitor.tsx:10).
StartFetch ==
    /\ issuedPolls < MaxPolls
    /\ issuedPolls' = issuedPolls + 1
    /\ fetchCurrent' = issuedPolls + 1
    /\ outstanding' = outstanding \cup {issuedPolls + 1}
    /\ lastCalls' = {GetQueueStatus}

JoinFetch ==
    /\ lastCalls' = {}
    /\ UNCHANGED <<issuedPolls, fetchCurrent, outstanding>>

\* The page mounts and the query fetches (QueueMonitor.tsx:7-12).
MountQueueMonitor ==
    /\ ~mounted
    /\ mounted' = TRUE
    /\ IF fetchCurrent = 0 THEN StartFetch ELSE JoinFetch
    /\ lastOp' = "mount"
    /\ UNCHANGED <<queryData, arrivals>>
    /\ UNCHANGED <<sessionVars, searchVars, transportVars>>

\* The 3000 ms refetch interval fires (QueueMonitor.tsx:11).
IntervalTick ==
    /\ mounted
    /\ IF fetchCurrent = 0 THEN StartFetch ELSE JoinFetch
    /\ lastOp' = "intervalTick"
    /\ UNCHANGED <<mounted, queryData, arrivals>>
    /\ UNCHANGED <<sessionVars, searchVars, transportVars>>

\* The Refresh button calls refetch() (QueueMonitor.tsx:21-27).
ManualRefetch ==
    /\ mounted
    /\ IF fetchCurrent # 0 /\ queryData = NoData THEN JoinFetch ELSE StartFetch
    /\ lastOp' = "refetch"
    /\ UNCHANGED <<mounted, queryData, arrivals>>
    /\ UNCHANGED <<sessionVars, searchVars, transportVars>>

\* The page unmounts: the interval goes with the observer, the fetch in
\* progress goes on (QueueMonitor.tsx:7-12).
UnmountQueueMonitor ==
    /\ mounted
    /\ mounted' = FALSE
    /\ lastOp' = "unmount"
    /\ lastCalls' = {}
    /\ UNCHANGED <<queryData, fetchCurrent, outstanding, issuedPolls, arrivals>>
    /\ UNCHANGED <<sessionVars, searchVars, transportVars>>

AppliesResponse_LastArrived(r) == TRUE

\* The query takes the result of request r: only the fetch it is waiting for
\* (QueueMonitor.tsx:8-12).
AppliesResponse(r) == r = fetchCurrent

\* The response to request r arrives, with a snapshot or with an error
\* (QueueMonitor.tsx:8-15, api.ts:14-23).
PollResponse(r, ok) ==
    /\ r \in outstanding
    /\ outstanding' = outstanding \ {r}
    /\ arrivals' = Append(arrivals, [id |-> r, ok |-> ok])
    /\ queryData' = IF AppliesResponse(r) /\ ok THEN SetData(queryData, Payload(r))
                    ELSE queryData
    /\ fetchCurrent' = IF r = fetchCurrent THEN 0 ELSE fetchCurrent
    /\ lastOp' = "pollResponse"
    /\ lastCalls' = {}
    /\ UNCHANGED <<mounted, issuedPolls>>
    /\ UNCHANGED <<sessionVars, searchVars, transportVars>>


\* login() and logout() hand the window to the provider (keycloak.ts:56-62):
\* logout() from the Sign out button, login() from App's render while the
\* context reports no authenticated user (App.tsx:66-67).
Navigating_LoginOnly == AppRender = "login"

Navigating == logoutCalled \/ AppRender = "login"

\* The navigation completes: the document is replaced and the application is
\* loaded anew, with the module state, the client object, the timers and the
\* React state of a fresh page (keycloak.ts:9-12, AuthContext.tsx:34-36).
PageReplaced ==
    /\ Navigating
    /\ initialized' = FALSE
    /\ initPromise' = "null"
    /\ promiseValue' = FALSE
    /\ kcAuthenticated' = "undefined"
    /\ kcToken' = 0
    /\ tokenGen' = 0
    /\ initCalls' = 0
    /\ timers' = 0
    /\ pendingRefresh' = [timer |-> 0, expired |-> 0]
    /\ refreshFailed' = FALSE
    /\ failedTokens' = {}
    /\ logoutCallbacks' = 0
    /\ successCallbacks' = 0
    /\ logoutCalled' = FALSE
    /\ callState' = [c \in Callers |-> "idle"]
    /\ callEarly' = [c \in Callers |-> FALSE]
    /\ callResult' = [c \in Callers |-> FALSE]
    /\ isLoading' = TRUE
    /\ authenticated' = FALSE
    /\ user' = "null"
    /\ realmRoles' = {}
    /\ transit' = <<>>
    /\ uploadsLeft' = 0
    /\ lastOutcome' = NoOutcome
    /\ form' = InitialForm
    /\ results' = [set |-> FALSE, items |-> <<>>]
    /\ searching' = FALSE
    /\ inflight' = <<>>
    /\ lastResp' = [kind |-> "none", a |-> NoCall, b |-> NoCall]
    /\ runs' = <<>>
    /\ backend' = Changing
    /\ mounted' = FALSE
    /\ queryData' = NoData
    /\ fetchCurrent' = 0
    /\ outstanding' = {}
    /\ issuedPolls' = 0
    /\ arrivals' = <<>>
    /\ lastOp' = "pageReplaced"
    /\ lastCalls' = {}

Init ==
    /\ SessionInit
    /\ TransportInit
    /\ SearchInit
    /\ PollInit
    /\ lastOp = "none"
    /\ lastCalls = {}

Next ==
    \/ \E c \in Callers : InitKeycloak(c)
    \/ \E o \in InitOutcomes : InitSettle(o)
    \/ RefreshTick
    \/ TokenExpired
    \/ \E src \in {"timer", "expired"} :
          \E o \in {"valid", "refreshed", "rejected", "unreachable", "noToken"} :
              RefreshSettle(src, o)
    \/ Logout
    \/ PageReplaced
    \/ \E e \in Endpoints : FetchApi(e)

Spec == Init /\ [][Next]_vars

\* The session's own operations: the pages' transport calls read the session
\* and change nothing in it.
NextSession ==
    \/ \E c \in Callers : InitKeycloak(c)
    \/ \E o \in InitOutcomes : InitSettle(o)
    \/ RefreshTick
    \/ TokenExpired
    \/ \E src \in {"timer", "expired"} :
          \E o \in {"valid", "refreshed", "rejected", "unreachable", "noToken"} :
              RefreshSettle(src, o)
    \/ Logout
    \/ PageReplaced

\* The browser carries out a navigation it was handed: a page that is
\* navigating away is replaced in the end.
SpecLogout == Init /\ [][NextSession]_vars /\ WF_vars(PageReplaced)

\* The page as SearchContent finds it: initKeycloak has resolved authenticated
\* and the shell is rendered (App.tsx:56-73).
SignedIn ==
    /\ initialized = TRUE
    /\ initPromise = "resolved"
    /\ promiseValue = TRUE
    /\ kcAuthenticated = "true"
    /\ kcToken = 1
    /\ tokenGen = 1
    /\ initCalls = 1
    /\ timers = 1
    /\ pendingRefresh = [timer |-> 0, expired |-> 0]
    /\ refreshFailed = FALSE
    /\ failedTokens = {}
    /\ logoutCallbacks = 0
    /\ successCallbacks = 1
    /\ logoutCalled = FALSE
    /\ callState = [c \in Callers |-> IF c = 1 THEN "done" ELSE "idle"]
    /\ callEarly = [c \in Callers |-> c = 1]
    /\ callResult = [c \in Callers |-> c = 1]
    /\ isLoading = FALSE
    /\ authenticated = TRUE
    /\ user = "user"
    /\ realmRoles = {"analyst"}

InitSearch ==
    /\ SignedIn
    /\ TransportInit
    /\ SearchInit
    /\ PollInit
    /\ lastOp = "none"
    /\ lastCalls = {}

NextSearch ==
    \/ \E f \in Forms : ClickSearch(f)
    \/ \E f \in Forms : PressEnter(f)
    \/ \E i \in 1..MaxInflight :
          \E a \in CaseAnswers \cup MediaAnswers :
              \E b \in PersonAnswers \cup {NoCall} : SearchSettle(i, a, b)

\* The transport under a signed-in session whose token is refreshed, or lost,
\* while calls are in flight.
InitTransport ==
    /\ SignedIn
    /\ TransportInit
    /\ SearchInit
    /\ PollInit
    /\ lastOp = "none"
    /\ lastCalls = {}

NextTransport ==
    \/ RefreshTick
    \/ TokenExpired
    \/ \E src \in {"timer", "expired"} :
          \E o \in {"valid", "refreshed", "rejected", "unreachable", "noToken"} :
              RefreshSettle(src, o)
    \/ \E via \in Vias : ApiCall(via)
    \/ \E n \in 1..MaxFiles : HandleUpload(n)
    \/ \E i \in 1..MaxCalls, status \in Statuses : ApiSettle(i, status)

SpecTransport == InitTransport /\ [][NextTransport]_vars

SpecSearch == InitSearch /\ [][NextSearch]_vars

InitRepeat ==
    /\ SignedIn
    /\ TransportInit
    /\ ComponentInit
    /\ backend \in Backends
    /\ PollInit
    /\ lastOp = "none"
    /\ lastCalls = {}

NextRepeat ==
    \/ \E f \in Forms : RepeatSearch("handleSearch:button", f)
    \/ \E f \in Forms : RepeatSearch("handleSearch:enter", f)
    \/ RepeatSettle

SpecRepeat == InitRepeat /\ [][NextRepeat]_vars


InitPoll ==
    /\ SignedIn
    /\ TransportInit
    /\ SearchInit
    /\ PollInit
    /\ lastOp = "none"
    /\ lastCalls = {}

NextPoll ==
    \/ MountQueueMonitor
    \/ IntervalTick
    \/ ManualRefetch
    \/ UnmountQueueMonitor
    \/ \E r \in 1..MaxPolls, ok \in BOOLEAN : PollResponse(r, ok)

SpecPoll == InitPoll /\ [][NextPoll]_vars

\* ================================================================ claims
\* ---------------------------------------------------------------- session

EarlyDone == {c \in Callers : callEarly[c] /\ callState[c] = "done"}

\* C1: however many initKeycloak() calls are issued before the first one
\* resolves, keycloak.init is invoked exactly once, and all of those calls
\* resolve to the same value, the one keycloak.init produced.
C1_SingleInit ==
    /\ initCalls <= 1
    /\ (\E c \in Callers : callEarly[c]) => initCalls = 1
    /\ \A c \in EarlyDone : callResult[c] = promiseValue
    /\ \A c, d \in EarlyDone : callResult[c] = callResult[d]

\* Two calls were issued before keycloak.init settled and both have resolved,
\* to the authenticated value.
C1_Witness ==
    /\ Cardinality(EarlyDone) >= 2
    /\ \A c \in EarlyDone : callResult[c] = TRUE
    /\ initCalls = 1

\* C2 (as claimed): once a token refresh has failed, isAuthenticated() is false
\* and the logout callback has fired exactly once.
C2_FailClosed ==
    refreshFailed => (~IsAuthenticated /\ logoutCallbacks = 1)

\* C3 (as claimed): no request built after a refresh failure carries the token
\* whose refresh failed.
C3_NoStaleToken ==
    \A r \in lastCalls : r.auth.present => r.auth.bearer \notin failedTokens

\* C4 (as claimed): once logout() has been called, no refresh tick fires.
C4_NoTickAfterLogout ==
    logoutCalled => lastOp # "refreshTick"

\* ---------------------------------------------------------------- transport

\* A transport call built a request in the last step.
CallStep == lastOp \in {"apiCall", "handleUpload"}

\* C13: every transport call reads the credential when it builds its request:
\* with a token present the request carries Bearer <the current token>, with
\* none it is sent all the same, without an Authorization header; a call made
\* after a refresh carries the refreshed token.
C13_CredentialAtCallTime ==
    /\ CallStep => Cardinality(lastCalls) = 1
    /\ (CallStep \/ lastOp = "apiSettle") =>
          \A r \in lastCalls :
              IF kcToken = 0 THEN ~r.auth.present
              ELSE r.auth.present /\ r.auth.bearer = kcToken

\* The upload loop sent its first file with token 1; the token was refreshed
\* while that upload was in flight, and the second file went out with token 2.
C13_Witness ==
    /\ lastOp = "apiSettle"
    /\ lastOutcome.auth = [present |-> TRUE, bearer |-> 1]
    /\ kcToken = 2
    /\ \E r \in lastCalls : r.auth = [present |-> TRUE, bearer |-> 2]

\* The session was lost while an upload was in flight: the loop's next request
\* went out without an Authorization header.
C13_SentWithoutToken ==
    /\ lastOp = "apiSettle"
    /\ kcToken = 0
    /\ \E r \in lastCalls : ~r.auth.present

\* A call got a response in the last step (not a network failure).
Responded == lastOp = "apiSettle" /\ lastOutcome.status # 0

\* C14 (as claimed): every transport call, fetchApi and the multipart calls
\* alike, settles a 2xx response as a success, a 401 as 'unauthorized', a 403 as
\* 'forbidden' and any other status as a failure that carries the status code.
C14_Classified ==
    Responded =>
        LET o == lastOutcome
            named == {"Unauthorized - please login",
                      "Forbidden - insufficient permissions"}
        IN CASE ResOk(o.status) -> o.kind = "resolved"
             [] o.status = 401 -> o.kind = "Unauthorized - please login"
             [] o.status = 403 -> o.kind = "Forbidden - insufficient permissions"
             [] OTHER -> /\ o.kind \notin named \cup {"resolved"}
                         /\ o.code = o.status

\* fetchApi alone does classify as claimed.
C14_FetchApiClassified ==
    (Responded /\ lastOutcome.via = "fetchApi") => C14_Classified

\* C15: a transport call builds exactly one request, and when it fails (401 or
\* any other failure) nothing follows in the transport: no further request, no
\* logout, and the session state and the stored credential stay as they were.
C15_NoSideEffect ==
    [][/\ lastOp' \in {"apiCall", "handleUpload"} => Cardinality(lastCalls') = 1
       /\ (lastOp' = "apiSettle" /\ lastOutcome'.kind # "resolved") =>
             /\ lastCalls' = {}
             /\ UNCHANGED sessionVars]_vars

\* A fetchApi call of a signed-in session was answered 401: the session is
\* signed in as before and the token is still stored.
C15_Witness ==
    /\ lastOp = "apiSettle"
    /\ lastOutcome.via = "fetchApi"
    /\ lastOutcome.status = 401
    /\ lastCalls = {}
    /\ authenticated /\ IsAuthenticated /\ kcToken # 0
    /\ ~logoutCalled

\* ---------------------------------------------------------------- poller

ArrivedOk(r) == \E i \in 1..Len(arrivals) : arrivals[i] = [id |-> r, ok |-> TRUE]

\* C5: last-issued-wins.  Once the response to the most recently issued
\* queue-status request has arrived, the held snapshot is that request's,
\* whatever older responses arrive after it.
C5_LastIssuedWins ==
    (issuedPolls > 0 /\ ArrivedOk(issuedPolls)) => queryData = Payload(issuedPolls)

\* Request N+1 was issued while request N was outstanding, the response to N+1
\* arrived first and the response to N after it.
C5_Witness ==
    /\ \E i, j \in 1..Len(arrivals) :
          /\ i < j
          /\ arrivals[i] = [id |-> issuedPolls, ok |-> TRUE]
          /\ arrivals[j] = [id |-> issuedPolls - 1, ok |-> TRUE]
    /\ lastOp = "pollResponse"
    /\ queryData = Payload(issuedPolls)

\* ---------------------------------------------------------------- search

\* A user event just ran on the form: a click on the Search button or Enter.
UserEvent == lastOp \in {"handleSearch:button", "handleSearch:enter", "clickDisabled"}

HandleSearchRan == lastOp \in {"handleSearch:button", "handleSearch:enter"}

TextSettled == lastOp = "searchSettle" /\ lastResp.kind = "text"

\* C6 (as claimed): when the case call of a text search fails and the person call
\* succeeds, the results are exactly the person rows, tagged 'person'.
C6_PartialSuccess ==
    (TextSettled /\ ~lastResp.a.ok /\ lastResp.b.ok) =>
        /\ results.set
        /\ Len(results.items) = Len(lastResp.b.body)
        /\ \A i \in 1..Len(lastResp.b.body) :
              /\ results.items[i].resultType = "person"
              /\ results.items[i].id = lastResp.b.body[i].id

WhitespaceOnly(q) == \A i \in 1..Len(q) : q[i] = " "

\* C7: a text search whose term is empty or whitespace-only issues no backend
\* call, by the Search button and by Enter, and when handleSearch runs on it the
\* result set it stores is empty.
C7_BlankTermRefused ==
    (UserEvent /\ form.searchType = "text" /\ WhitespaceOnly(form.textQuery)) =>
        /\ lastCalls = {}
        /\ HandleSearchRan => (results.set /\ results.items = <<>> /\ ~searching)

\* Enter was pressed on a term of one blank: handleSearch ran and refused.
C7_Witness ==
    /\ lastOp = "handleSearch:enter"
    /\ form.searchType = "text"
    /\ form.textQuery = <<" ">>
    /\ lastCalls = {}
    /\ results = [set |-> TRUE, items |-> <<>>]

\* C8 (as claimed): a location search whose radius is missing, zero or negative
\* does not issue the /search/location call.
C8_RadiusValidated ==
    (UserEvent /\ form.searchType = "location" /\ form.radius \in {"", "0", "-1"}) =>
        lastCalls = {}

\* The field the current mode requires is missing (not text mode, which C7 covers).
MissingRequired(f) ==
    \/ f.searchType \in {"similar", "signature"} /\ f.mediaId = ""
    \/ f.searchType = "location" /\ (f.lat = "" \/ f.lon = "")
    \/ f.searchType = "upload" /\ f.file = "null"

\* C9: in every search mode, a search attempted while a required field (latitude
\* or longitude, media id, file) is missing builds no request and starts no
\* backend call; nothing is thrown (the attempt leaves no invocation behind).
C9_MissingFieldRefused ==
    (UserEvent /\ MissingRequired(form)) =>
        /\ lastCalls = {}
        /\ lastOp = "clickDisabled"

\* The Search button was clicked in similar mode with no media id, and in
\* location mode with a latitude and no longitude.
C9_Witness ==
    /\ lastOp = "clickDisabled"
    /\ ~searching
    /\ \/ form.searchType = "similar" /\ form.mediaId = ""
       \/ form.searchType = "location" /\ form.lat = "51" /\ form.lon = ""
    /\ lastCalls = {}

\* C10: when both calls of a text search succeed, the results are the case rows
\* tagged 'case' followed by the person rows tagged 'person', each list in the
\* backend's order, nothing removed; one case and no person gives that one case.
C10_TextMerge ==
    (TextSettled /\ lastResp.a.ok /\ lastResp.b.ok) =>
        LET c == lastResp.a.body
            p == lastResp.b.body
            r == results.items
        IN /\ results.set
           /\ Len(r) = Len(c) + Len(p)
           /\ \A i \in 1..Len(c) :
                 r[i] = [id |-> c[i].id, name |-> c[i].name, resultType |-> "case"]
           /\ \A j \in 1..Len(p) :
                 r[Len(c) + j] =
                     [id |-> p[j].id, name |-> p[j].name, resultType |-> "person"]

\* A text search returned two cases and the person of the same name as one of
\* them: three results, "Doe" twice.
C10_Witness ==
    /\ TextSettled
    /\ lastResp.a.ok /\ lastResp.b.ok
    /\ Len(lastResp.a.body) = 2
    /\ lastResp.a.body[1].id = 2
    /\ Len(lastResp.b.body) = 1
    /\ Len(results.items) = 3
    /\ results.items[2].name = "Doe" /\ results.items[3].name = "Doe"

\* A search by media similarity or by uploaded image has resumed with the
\* backend's answer.
CandidatesSettled ==
    lastOp = "searchSettle" /\ lastResp.kind \in {"similar", "upload"} /\ lastResp.a.ok

\* C11: the results of a similarity search and of an upload search are the
\* backend's candidate sequence as it arrived: the same items in the same order,
\* not re-sorted by distance.
C11_BackendOrderKept ==
    CandidatesSettled =>
        /\ results.set
        /\ Len(results.items) = Len(lastResp.a.body)
        /\ \A i \in 1..Len(lastResp.a.body) : results.items[i] = lastResp.a.body[i]

\* A similarity search got two candidates, the one at distance 9 ahead of the one
\* at distance 3, and shows them in that order.
C11_Witness ==
    /\ CandidatesSettled
    /\ lastResp.kind = "similar"
    /\ Len(results.items) = 2
    /\ results.items[1].distance = 9
    /\ results.items[2].distance = 3

\* ---------------------------------------------------- repeated executions

\* C12: two executions of handleSearch on the same form contents, one after the
\* other against an unchanged backend, store equal results; what an earlier
\* execution left behind does not show in a later one.
C12_Idempotent ==
    \A i, j \in 1..Len(runs) :
        (runs[i].done /\ runs[j].done /\ runs[i].f = runs[j].f) =>
            runs[i].items = runs[j].items

\* The same text search ran twice and found the same three rows both times.
C12_Witness ==
    /\ Len(runs) = 2
    /\ runs[1].done /\ runs[2].done
    /\ runs[1].f = runs[2].f
    /\ runs[2].f.searchType = "text"
    /\ Len(runs[1].items) = 3
    /\ results.items = runs[2].items

\* ------------------------------------------------- failures and the session

\* A search resumed on a 401 answer to one of its calls.
SearchUnauthorized ==
    /\ lastOp = "searchSettle"
    /\ (lastResp.a = Unauthorized \/ lastResp.b = Unauthorized)

\* C16 (as claimed): when a search request fails as Unauthorized the session
\* becomes Unauthenticated and App shows the login redirect; the search is not
\* sent again.
C16_UnauthorizedSurfaced ==
    SearchUnauthorized => (AppRender = "login" /\ ~authenticated /\ lastCalls = {})

\* The part of C16 that holds: a search that failed as Unauthorized is not retried.
C16_NotRetried ==
    SearchUnauthorized => (lastCalls = {} /\ results = [set |-> TRUE, items |-> <<>>])

\* keycloak.init threw (the provider could not be reached) and initKeycloak has
\* settled: the client object never learnt whether there is a session.
InitFailed == initPromise = "resolved" /\ kcAuthenticated = "undefined"

\* C17: when keycloak.init throws, initKeycloak resolves to false for every
\* caller, the session is unauthenticated, initialization is marked complete
\* (initialized set, loading over) and no refresh timer runs.
C17_InitFailureRecovered ==
    InitFailed =>
        /\ promiseValue = FALSE
        /\ \A c \in Callers : callState[c] = "done" => callResult[c] = FALSE
        /\ \A c \in Callers : callEarly[c] => callState[c] = "done"
        /\ initialized
        /\ ~isLoading
        /\ ~IsAuthenticated /\ ~authenticated /\ user = "null" /\ kcToken = 0
        /\ timers = 0

\* keycloak.init failed with two calls waiting on it: both resolved to false.
C17_Witness ==
    /\ InitFailed
    /\ lastOp = "initSettle"
    /\ Cardinality(EarlyDone) = 2
    /\ \A c \in EarlyDone : callResult[c] = FALSE
    /\ timers = 0

\* The session holds a credential: initialization is over and the client
\* object is authenticated with a token.
SessionReady == initialized /\ ~isLoading /\ IsAuthenticated /\ kcToken # 0

\* C18: App renders the shell, and ProtectedRoute its page, only when
\* initialization has finished and the session is authenticated; unauthenticated
\* and not loading, App renders the login redirect and ProtectedRoute nothing.
C18_ProtectedOnlyWhenAuthenticated ==
    /\ AppRender = "shell" => (SessionReady /\ authenticated)
    /\ ProtectedRoute = "children" => (SessionReady /\ authenticated)
    /\ (~isLoading /\ ~authenticated) =>
          (AppRender = "login" /\ ProtectedRoute = "null")
    /\ isLoading => (AppRender = "initializing" /\ ProtectedRoute = "spinner")

\* The session was authenticated and was then ended by the provider: the shell
\* has given way to the login redirect.
C18_Witness ==
    /\ logoutCallbacks = 1
    /\ successCallbacks = 1
    /\ AppRender = "login"
    /\ ProtectedRoute = "null"
    /\ kcToken = 0

\* C19 (as claimed): every transition of the session is reported by its
\* callback exactly once: becoming authenticated by onAuthSuccess, becoming
\* unauthenticated by onAuthLogout, and no callback runs twice in a step.
C19_ExactlyOnce ==
    [][lastOp' # "pageReplaced" =>
       /\ (authenticated /\ ~authenticated') =>
             (logoutCallbacks' = logoutCallbacks + 1
                 /\ successCallbacks' = successCallbacks)
       /\ (~authenticated /\ authenticated') =>
             (successCallbacks' = successCallbacks + 1
                 /\ logoutCallbacks' = logoutCallbacks)
       /\ (authenticated' = authenticated) =>
             (successCallbacks' = successCallbacks
                 /\ logoutCallbacks' = logoutCallbacks)]_vars

\* C20: once an initialization has completed, with success or with failure,
\* keycloak.init has run once and runs no more, a later initKeycloak() call
\* resolves at once, and no refresh timer is added.
C20_InitOnce ==
    initialized =>
        /\ initCalls = 1
        /\ initPromise = "resolved"
        /\ timers = (IF promiseValue THEN 1 ELSE 0)
        /\ \A c \in Callers :
              (callState[c] # "idle" /\ ~callEarly[c]) => callState[c] = "done"

\* initKeycloak() was called again after a failed initialization and resolved
\* to false without a second keycloak.init.
C20_Witness ==
    /\ InitFailed
    /\ lastOp = "initKeycloak"
    /\ \E c \in Callers :
          callState[c] = "done" /\ ~callEarly[c] /\ callResult[c] = FALSE
    /\ initCalls = 1
    /\ timers = 0


\* ------------------------------------------------------- session, continued

C22_SnapshotReplacedInFull ==
    /\ [](\/ queryData = NoData
          \/ \E i \in 1..Len(arrivals) :
                arrivals[i].ok /\ queryData = Payload(arrivals[i].id))
    /\ [][(/\ fetchCurrent # 0
           /\ fetchCurrent \notin outstanding'
           /\ arrivals' = Append(arrivals, [id |-> fetchCurrent, ok |-> TRUE]))
              => queryData' = Payload(fetchCurrent)]_vars

\* A snapshot was held and a later response has replaced it.
C22_Witness ==
    /\ lastOp = "pollResponse"
    /\ \E i, j \in 1..Len(arrivals) :
          /\ i < j
          /\ j = Len(arrivals)
          /\ arrivals[i].ok
          /\ arrivals[j].ok
          /\ arrivals[i].id < arrivals[j].id
          /\ queryData = Payload(arrivals[j].id)


\* C23 (as claimed): after the QueueMonitor view is torn down, no queue-status
\* request is issued and a response that arrives does not change the snapshot
\* held.
C23_QuietAfterTeardown ==
    [][(~mounted /\ ~mounted' /\ lastOp' # "pageReplaced")
          => (issuedPolls' = issuedPolls /\ queryData' = queryData)]_vars

\* The part of C23 about the timer: while the view stays torn down no request
\* is issued.
C23_NoOrphanTimer ==
    [][(~mounted /\ ~mounted') => issuedPolls' = issuedPolls]_vars

\* A response arrived after the teardown and became the snapshot held.
C23_AppliedAfterTeardown ==
    /\ ~mounted
    /\ lastOp = "pollResponse"
    /\ arrivals # <<>>
    /\ arrivals[Len(arrivals)].ok
    /\ queryData = Payload(arrivals[Len(arrivals)].id)


\* ------------------------------------------------------- search, continued

\* The invocation that resumes in this step is not the one issued last: a
\* later search is still awaiting its answers.
SupersededResumes ==
    /\ lastOp' = "searchSettle"
    /\ inflight' # RemoveAt(inflight, Len(inflight))
    /\ \E i \in 1..(Len(inflight) - 1) : inflight' = RemoveAt(inflight, i)

\* C24 (as claimed): the result of a search that a later search has superseded
\* is ignored when it arrives; the results displayed stay as they are.
C24_SupersededIgnored ==
    [][SupersededResumes => results' = results]_vars

\* The answer to a superseded search is on display while the search issued
\* after it still awaits its answers.
C24_StaleDisplayed ==
    /\ lastOp = "searchSettle"
    /\ inflight = <<[kind |-> "text"]>>
    /\ lastResp.kind # "text"
    /\ results.set
    /\ results.items # <<>>
    /\ ~searching

\* C26 (as claimed): at most one handleSearch awaits its backend calls at any
\* time.
C26_SingleFlight == Len(inflight) <= 1

\* Enter started a second handleSearch while searching was true.
C26_EnterWhileSearching ==
    /\ lastOp = "handleSearch:enter"
    /\ Len(inflight) = 2
    /\ searching

\* C27: a handleSearch invocation that ends, by refusing or after its backend
\* calls settled, leaves searching = false and a list as results; the list is
\* empty after a refusal and after any failure of a call.
C27_EndsClean ==
    /\ (HandleSearchRan /\ lastCalls = {})
           => (~searching /\ results = [set |-> TRUE, items |-> <<>>])
    /\ lastOp = "searchSettle"
           => /\ ~searching
              /\ results.set
              /\ Throws(lastResp.kind, lastResp.a, lastResp.b) => results.items = <<>>

\* A backend call failed and the invocation ended with an empty list.
C27_Witness ==
    /\ lastOp = "searchSettle"
    /\ Throws(lastResp.kind, lastResp.a, lastResp.b)
    /\ ~searching
    /\ results = [set |-> TRUE, items |-> <<>>]


\* ------------------------------------------------------ roles and context

\* C25: admin implies analyst.  Whatever realm roles the token carries,
\* isAnalyst() is true whenever isAdmin() is.
C25_AdminImpliesAnalyst == IsAdmin => IsAnalyst

\* A token that carries an admin role and no analyst role.
C25_Witness ==
    /\ realmRoles = {"forensic-admin"}
    /\ IsAdmin
    /\ IsAnalyst

\* C28: at most one refresh interval timer exists, and one exists only after
\* keycloak.init resolved authenticated.
C28_OneRefreshTimer ==
    /\ timers <= 1
    /\ timers = 1 => (initialized /\ promiseValue /\ initCalls = 1)

\* The timer was set up once although initKeycloak was called by every effect
\* run and logout() has been called.
C28_Witness ==
    /\ timers = 1
    /\ \A c \in Callers : callState[c] = "done"
    /\ logoutCalled

\* C29: user is non-null only while authenticated is true, and isLoading, once
\* false, stays false for the life of the AuthProvider.
C29_ContextConsistent ==
    /\ [](user # "null" => authenticated)
    /\ [][(~isLoading /\ lastOp' # "pageReplaced") => ~isLoading']_vars

\* A signed-in context lost its session through onAuthLogout: user and
\* authenticated were cleared together, isLoading stayed false.
C29_Witness ==
    /\ logoutCallbacks > 0
    /\ successCallbacks > 0
    /\ ~isLoading
    /\ ~authenticated
    /\ user = "null"

\* C30 (as claimed): the context never reports isAdmin or isAnalyst while it
\* reports isAuthenticated = false.
C30_NoRoleWithoutSession == ~authenticated => (~IsAdmin /\ ~IsAnalyst)

\* After the refresh started by the token-expired handler failed without an
\* answer, the context reports isAuthenticated = false and isAdmin = true.
C30_AdminAfterFailedRefresh ==
    /\ lastOp = "refreshSettle"
    /\ ~isLoading
    /\ ~authenticated
    /\ user = "null"
    /\ IsAdmin
    /\ IsAnalyst

====
